---------------------------- MODULE Spec2Model ----------------------------
(***************************************************************************)
(* A model of the classical_ciphers crate (src/lib.rs): the shift cipher,  *)
(* the block transposition cipher and the transposition key generator.     *)
(* Strings are sequences of bytes (0..255).  Rust indexes from 0, TLA+     *)
(* sequences from 1: At and SetAt do the translation.                      *)
(***************************************************************************)
EXTENDS Integers, Sequences, FiniteSets, TLC

VARIABLES
    cipher,           \* the Ciphers value: [tag, key]
    message,          \* the caller's original String
    input,            \* the String handed to the call in progress / last call
    org,              \* the byte buffer the call mutates in place
    calls,            \* the calls made so far on the cipher, in order
    pc,               \* position of the caller / callee
    i,                \* block offset of encrypt_trans_vec / decrypt_trans_vec
    j,                \* loop index of encrypt_with_accord / decrypt_with_accord
    num,              \* scratch HashMap<usize, T> of the accord routines
    key_size,         \* argument of trans_key_gen
    overflow_checks,  \* build profile: integer overflow panics (debug) or wraps
    hi,               \* upper end of the Uniform range of trans_key_gen
    gen_v,            \* the Vec trans_key_gen fills
    gen_num           \* the HashMap<usize, bool> of trans_key_gen

vars == <<cipher, message, input, org, calls, pc, i, j, num,
          key_size, overflow_checks, hi, gen_v, gen_num>>

cipher_vars == <<cipher, message, input, org, calls, i, j, num>>
gen_vars == <<key_size, overflow_checks, hi, gen_v, gen_num>>

----------------------------------------------------------------------------
(* Bounds of the model *)

MaxShiftLen == 2
MaxKeyLen == 3
MaxTextLen == 7
MaxAnyKeyLen == 2
MaxGenSize == 5

----------------------------------------------------------------------------
(* Machine integers.  u8 arithmetic is written modulo 2^8; with a key     *)
(* reduced modulo 26 and a letter as x no sum or difference in rot_up or   *)
(* rot_down leaves 0..255.  usize is narrowed to USIZE_BITS bits: the only *)
(* wrap is key_size-1 at key_size = 0, and the wrapped value is never      *)
(* drawn from nor used as an index.                                        *)

U8_MOD == 256
USIZE_BITS == 16

b_A == 65
b_Z == 90
b_a == 97
b_z == 122

u8_add(a, b) == (a + b) % U8_MOD
u8_sub(a, b) == (a - b) % U8_MOD
usize_wrapping_sub(a, b) == (a - b) % (2 ^ USIZE_BITS)

----------------------------------------------------------------------------
(* Vec / slice / HashMap helpers *)

At(s, k) == s[k + 1]
SetAt(s, k, x) == [s EXCEPT ![k + 1] = x]
Slice(s, from, to) == SubSeq(s, from + 1, to)
WriteSlice(s, from, blk) ==
    [p \in 1..Len(s) |->
        IF p \in (from + 1)..(from + Len(blk)) THEN blk[p - from] ELSE s[p]]

EmptyMap == << >>
contains_key(m, k) == k \in DOMAIN m
insert(m, k, x) == [y \in (DOMAIN m) \cup {k} |-> IF y = k THEN x ELSE m[y]]
remove(m, k) == [y \in (DOMAIN m) \ {k} |-> m[y]]

ShiftCipher(k) == [tag |-> "ShiftCipher", key |-> k]
TransCipher(k) == [tag |-> "TransCipher", key |-> k]

----------------------------------------------------------------------------
(* Shift cipher *)

rot_up_off_by_one(key, x) ==
    IF x \in b_A..b_Z /\ u8_add(key, x) > b_Z
        THEN u8_add(b_A, u8_sub(key, u8_sub(b_Z, x)))
    ELSE IF x \in b_a..b_z /\ u8_add(key, x) > b_z
        THEN u8_add(b_a, u8_sub(key, u8_sub(b_z, x)))
    ELSE u8_add(x, key)

RECURSIVE rot_up(_, _)
rot_up(key, x) ==
    LET rot_wrap_up(b) == u8_sub(key, u8_add(u8_sub(b, x), 1))
    IN  IF x \in b_A..b_Z /\ u8_add(key, x) > b_Z
            THEN rot_up(rot_wrap_up(b_Z), b_A)
        ELSE IF x \in b_a..b_z /\ u8_add(key, x) > b_z
            THEN rot_up(rot_wrap_up(b_z), b_a)
        ELSE u8_add(x, key)

rot_down_off_by_one(key, x) ==
    IF x \in b_A..b_Z /\ u8_sub(x, key) < b_A
        THEN u8_sub(b_Z, u8_sub(key, u8_sub(x, b_A)))
    ELSE IF x \in b_a..b_z /\ u8_sub(x, key) < b_a
        THEN u8_sub(b_z, u8_sub(key, u8_sub(x, b_a)))
    ELSE u8_sub(x, key)

RECURSIVE rot_down(_, _)
rot_down(key, x) ==
    LET rot_wrap_down(b) == u8_sub(key, u8_add(u8_sub(x, b), 1))
    IN  IF x \in b_A..b_Z /\ u8_sub(x, key) < b_A
            THEN rot_down(rot_wrap_down(b_A), b_Z)
        ELSE IF x \in b_a..b_z /\ u8_sub(x, key) < b_a
            THEN rot_down(rot_wrap_down(b_a), b_z)
        ELSE u8_sub(x, key)

rot_vec_up(key, text) ==
    [p \in 1..Len(text) |->
        IF text[p] \in b_A..b_Z \/ text[p] \in b_a..b_z
            THEN rot_up(key, text[p])
            ELSE text[p]]

rot_vec_down(key, text) ==
    [p \in 1..Len(text) |->
        IF text[p] \in b_A..b_Z \/ text[p] \in b_a..b_z
            THEN rot_down(key, text[p])
            ELSE text[p]]

shift_encrypt(key, original_text) == rot_vec_up(key, original_text)
shift_decrypt(key, cipher_text) == rot_vec_down(key, cipher_text)

----------------------------------------------------------------------------
(* Transposition cipher: the bodies of the two accord loops.  v is the     *)
(* block (a slice of the buffer), acc the key, k the loop index.  fault    *)
(* is an out-of-bounds index panic.                                        *)

encrypt_body_no_scratch(v, m, acc, k) ==
    LET num1 == insert(m, k, At(v, k))
        a == At(acc, k)
    IN  IF a < Len(v)
            THEN [v |-> SetAt(v, k, At(v, a)), num |-> num1, fault |-> FALSE]
            ELSE [v |-> v, num |-> num1, fault |-> TRUE]

encrypt_with_accord_body(v, m, acc, k) ==
    LET num1 == insert(m, k, At(v, k))
        a == At(acc, k)
    IN  IF contains_key(num1, a)
            THEN [v |-> SetAt(v, k, num1[a]), num |-> remove(num1, a),
                  fault |-> FALSE]
        ELSE IF a < Len(v)
            THEN [v |-> SetAt(v, k, At(v, a)), num |-> num1, fault |-> FALSE]
        ELSE [v |-> v, num |-> num1, fault |-> TRUE]

decrypt_body_wrong_key(v, m, acc, k) ==
    LET a == At(acc, k)
    IN  IF a >= Len(acc) \/ a >= Len(v)
            THEN [v |-> v, num |-> m, fault |-> TRUE]
            ELSE LET num1 == insert(m, a, At(v, a))
                 IN  IF contains_key(num1, a)
                        THEN [v |-> SetAt(v, a, num1[a]),
                              num |-> remove(num1, a), fault |-> FALSE]
                        ELSE [v |-> SetAt(v, a, At(v, k)), num |-> num1,
                              fault |-> FALSE]

decrypt_with_accord_body(v, m, acc, k) ==
    LET a == At(acc, k)
    IN  IF a >= Len(acc) \/ a >= Len(v)
            THEN [v |-> v, num |-> m, fault |-> TRUE]
            ELSE LET num1 == insert(m, At(acc, a), At(v, a))
                 IN  IF contains_key(num1, a)
                        THEN [v |-> SetAt(v, a, num1[a]),
                              num |-> remove(num1, a), fault |-> FALSE]
                        ELSE [v |-> SetAt(v, a, At(v, k)), num |-> num1,
                              fault |-> FALSE]

while_cond_inclusive(off, n, len) == off + n <= len

while_cond(off, n, len) == off + n < len

----------------------------------------------------------------------------
(* Key generator: num.entry(x).or_insert_with(|| { v.push(x); true })      *)

or_insert_always_push(m, v, x) ==
    [num |-> insert(m, x, TRUE), v |-> Append(v, x)]

or_insert_with(m, v, x) ==
    IF contains_key(m, x)
        THEN [num |-> m, v |-> v]
        ELSE [num |-> insert(m, x, TRUE), v |-> Append(v, x)]

----------------------------------------------------------------------------
(* Input domains *)

SeqsUpTo(S, n) == UNION {[1..k -> S] : k \in 0..n}

Iota(n) == [p \in 1..n |-> 48 + p]

IsPermutation(key) ==
    /\ \A p \in DOMAIN key : key[p] \in 0..(Len(key) - 1)
    /\ \A p, q \in DOMAIN key : p # q => key[p] # key[q]

PermKeys(n) == {key \in [1..n -> 0..(n - 1)] : IsPermutation(key)}

Hello == <<104, 101, 108, 108, 111>>
Wtaad == <<119, 116, 97, 97, 100>>
HelloHowAreYou ==
    <<72, 101, 108, 108, 111, 72, 111, 119, 65, 114, 101, 89, 111, 117, 33>>
Word == <<119, 111, 114, 100>>
Odwr == <<111, 100, 119, 114>>
DocKey == <<1, 3, 0, 2>>

Bytes == 0..(U8_MOD - 1)
ShiftBytes == {32, b_A, b_Z, 91, b_a, b_z}
ShiftTexts ==
    {<<x>> : x \in Bytes} \cup SeqsUpTo(ShiftBytes, MaxShiftLen)
        \cup {Hello, Wtaad, HelloHowAreYou}

TransBytes == {b_a, b_a + 1}
TransTexts ==
    SeqsUpTo(TransBytes, MaxTextLen) \cup {Iota(n) : n \in 0..MaxTextLen}
TransInputs ==
    ((UNION {PermKeys(n) : n \in 0..MaxKeyLen}) \X TransTexts)
        \cup {<<DocKey, Word>>}

AnyKeys == UNION {[1..n -> 0..n] : n \in 0..MaxAnyKeyLen}

----------------------------------------------------------------------------
(* Initial states *)

GenIdle ==
    /\ key_size = 0
    /\ overflow_checks = FALSE
    /\ hi = 0
    /\ gen_v = << >>
    /\ gen_num = EmptyMap

CipherIdle ==
    /\ cipher = ShiftCipher(0)
    /\ message = << >>
    /\ input = << >>
    /\ org = << >>
    /\ calls = << >>
    /\ i = 0
    /\ j = 0
    /\ num = EmptyMap

CipherReady ==
    /\ input = message
    /\ org = message
    /\ calls = << >>
    /\ pc = "ready"
    /\ i = 0
    /\ j = 0
    /\ num = EmptyMap

InitShift ==
    /\ cipher \in {ShiftCipher(k) : k \in 0..(U8_MOD - 1)}
    /\ message \in ShiftTexts
    /\ CipherReady
    /\ GenIdle

InitTrans ==
    /\ \E kt \in TransInputs :
        /\ cipher = TransCipher(kt[1])
        /\ message = kt[2]
    /\ CipherReady
    /\ GenIdle

InitTransAny ==
    /\ cipher \in {TransCipher(k) : k \in AnyKeys}
    /\ message \in TransTexts
    /\ CipherReady
    /\ GenIdle

InitGen ==
    /\ key_size \in 0..MaxGenSize
    /\ overflow_checks \in BOOLEAN
    /\ hi = 0
    /\ gen_v = << >>
    /\ gen_num = EmptyMap
    /\ pc = "ready"
    /\ CipherIdle

----------------------------------------------------------------------------
(* Ciphers::encrypt / Ciphers::decrypt.  The shift arm runs to completion  *)
(* in one step; the transposition arm enters the blocking loop.            *)

encrypt ==
    /\ pc = "ready"
    /\ calls = << >>
    /\ calls' = Append(calls, "encrypt")
    /\ input' = org
    /\ IF cipher.tag = "ShiftCipher"
        THEN /\ org' = shift_encrypt(cipher.key % 26, org)
             /\ pc' = "returned"
        ELSE /\ org' = org
             /\ pc' = "enc_while"
    /\ i' = 0
    /\ UNCHANGED <<cipher, message, j, num>>
    /\ UNCHANGED gen_vars

decrypt ==
    /\ \/ pc = "ready" /\ calls = << >>
       \/ pc = "returned" /\ calls = <<"encrypt">>
    /\ calls' = Append(calls, "decrypt")
    /\ input' = org
    /\ IF cipher.tag = "ShiftCipher"
        THEN /\ org' = shift_decrypt(cipher.key % 26, org)
             /\ pc' = "returned"
        ELSE /\ org' = org
             /\ pc' = "dec_while"
    /\ i' = 0
    /\ UNCHANGED <<cipher, message, j, num>>
    /\ UNCHANGED gen_vars

(* while i + key_size < org.len() *)
encrypt_trans_vec ==
    /\ pc = "enc_while"
    /\ IF while_cond(i, Len(cipher.key), Len(org))
        THEN /\ pc' = "enc_accord"
             /\ j' = 0
             /\ num' = EmptyMap
        ELSE /\ pc' = "returned"
             /\ UNCHANGED <<j, num>>
    /\ UNCHANGED <<cipher, message, input, org, calls, i>>
    /\ UNCHANGED gen_vars

(* one iteration of for i in 0..v.len() on the slice org[i..key_size + i] *)
encrypt_with_accord ==
    /\ pc = "enc_accord"
    /\ j < Len(cipher.key)
    /\ LET n == Len(cipher.key)
           r == encrypt_with_accord_body(Slice(org, i, n + i), num,
                                         cipher.key, j)
       IN  IF r.fault
            THEN /\ pc' = "panic"
                 /\ UNCHANGED <<org, num, j>>
            ELSE /\ org' = WriteSlice(org, i, r.v)
                 /\ num' = r.num
                 /\ j' = j + 1
                 /\ pc' = pc
    /\ UNCHANGED <<cipher, message, input, calls, i>>
    /\ UNCHANGED gen_vars

(* the accord call returns; i += key_size *)
encrypt_next_block ==
    /\ pc = "enc_accord"
    /\ j = Len(cipher.key)
    /\ i' = i + Len(cipher.key)
    /\ pc' = "enc_while"
    /\ UNCHANGED <<cipher, message, input, org, calls, j, num>>
    /\ UNCHANGED gen_vars

decrypt_trans_vec ==
    /\ pc = "dec_while"
    /\ IF while_cond(i, Len(cipher.key), Len(org))
        THEN /\ pc' = "dec_accord"
             /\ j' = 0
             /\ num' = EmptyMap
        ELSE /\ pc' = "returned"
             /\ UNCHANGED <<j, num>>
    /\ UNCHANGED <<cipher, message, input, org, calls, i>>
    /\ UNCHANGED gen_vars

decrypt_with_accord ==
    /\ pc = "dec_accord"
    /\ j < Len(cipher.key)
    /\ LET n == Len(cipher.key)
           r == decrypt_with_accord_body(Slice(org, i, n + i), num,
                                         cipher.key, j)
       IN  IF r.fault
            THEN /\ pc' = "panic"
                 /\ UNCHANGED <<org, num, j>>
            ELSE /\ org' = WriteSlice(org, i, r.v)
                 /\ num' = r.num
                 /\ j' = j + 1
                 /\ pc' = pc
    /\ UNCHANGED <<cipher, message, input, calls, i>>
    /\ UNCHANGED gen_vars

decrypt_next_block ==
    /\ pc = "dec_accord"
    /\ j = Len(cipher.key)
    /\ i' = i + Len(cipher.key)
    /\ pc' = "dec_while"
    /\ UNCHANGED <<cipher, message, input, org, calls, j, num>>
    /\ UNCHANGED gen_vars

----------------------------------------------------------------------------
(* Ciphers::trans_key_gen *)

(* Uniform::new_inclusive(0, key_size-1); Vec::with_capacity; HashMap::new *)
trans_key_gen ==
    /\ pc = "ready"
    /\ IF key_size = 0 /\ overflow_checks
        THEN /\ pc' = "panic"
             /\ UNCHANGED <<hi, gen_v, gen_num>>
        ELSE /\ hi' = usize_wrapping_sub(key_size, 1)
             /\ gen_v' = << >>
             /\ gen_num' = EmptyMap
             /\ pc' = "gen_while"
    /\ UNCHANGED <<key_size, overflow_checks>>
    /\ UNCHANGED cipher_vars

(* while v.len() != key_size *)
trans_key_gen_while ==
    /\ pc = "gen_while"
    /\ pc' = IF Len(gen_v) # key_size THEN "gen_draw" ELSE "returned"
    /\ UNCHANGED gen_vars
    /\ UNCHANGED cipher_vars

(* let x = nrng.next().unwrap(); num.entry(x).or_insert_with(...) *)
trans_key_gen_draw ==
    /\ pc = "gen_draw"
    /\ \E x \in 0..hi :
        LET r == or_insert_with(gen_num, gen_v, x)
        IN  /\ gen_num' = r.num
            /\ gen_v' = r.v
    /\ pc' = "gen_while"
    /\ UNCHANGED <<key_size, overflow_checks, hi>>
    /\ UNCHANGED cipher_vars

----------------------------------------------------------------------------
(* Specifications *)

NextShift == encrypt \/ decrypt

NextTrans ==
    \/ encrypt
    \/ encrypt_trans_vec
    \/ encrypt_with_accord
    \/ encrypt_next_block
    \/ decrypt
    \/ decrypt_trans_vec
    \/ decrypt_with_accord
    \/ decrypt_next_block

NextGen == trans_key_gen \/ trans_key_gen_while \/ trans_key_gen_draw

SpecShift == InitShift /\ [][NextShift]_vars
SpecTrans == InitTrans /\ [][NextTrans]_vars
FairSpecTrans == InitTrans /\ [][NextTrans]_vars /\ WF_vars(NextTrans)
SpecTransAny == InitTransAny /\ [][NextTrans]_vars
SpecGen == InitGen /\ [][NextGen]_vars

----------------------------------------------------------------------------
(* Properties *)

Returned(c) == pc = "returned" /\ calls = c

KeyLen == Len(cipher.key)

(* base + ((x - base + (k mod 26)) mod 26) on letters, x elsewhere *)
ShiftReference(k, x) ==
    IF x \in b_A..b_Z THEN b_A + ((x - b_A + (k % 26)) % 26)
    ELSE IF x \in b_a..b_z THEN b_a + ((x - b_a + (k % 26)) % 26)
    ELSE x

(* the first block offset b = 0, n, 2n, ... with b + n >= L *)
FirstSkipped(n, L) ==
    CHOOSE b \in {n * q : q \in 0..L} :
        /\ b + n >= L
        /\ \A q \in 0..L : n * q < b => n * q + n < L

(* C1: shift round trip: for every key in 0..255 and every ASCII string,   *)
(* decrypting the encryption of the string gives the string back.          *)
C1_ShiftRoundTrip ==
    (cipher.tag = "ShiftCipher" /\ Returned(<<"encrypt", "decrypt">>))
        => org = message

C1_Witness ==
    /\ Returned(<<"encrypt", "decrypt">>)
    /\ cipher = ShiftCipher(15)
    /\ message = HelloHowAreYou
    /\ input # message
    /\ org = message

(* C2: transposition round trip: for every permutation key of length       *)
(* n >= 1 and every string, encrypt and decrypt never fault, and           *)
(* decrypting the encryption of the string gives the string back.          *)
C2_TransRoundTrip ==
    (KeyLen >= 1 /\ IsPermutation(cipher.key))
        => /\ pc # "panic"
           /\ Returned(<<"encrypt", "decrypt">>) => org = message

C2_Witness ==
    /\ Returned(<<"encrypt", "decrypt">>)
    /\ cipher = TransCipher(<<1, 0>>)
    /\ message = Iota(5)
    /\ input = <<50, 49, 52, 51, 53>>
    /\ org = message

(* C3: key generator validity: for key_size >= 1 the Vec never holds a     *)
(* value twice, and when trans_key_gen returns, the Vec has length         *)
(* key_size and holds each integer of 0..key_size-1 exactly once.          *)
C3_KeyGenValid ==
    key_size >= 1
        => /\ \A p, q \in DOMAIN gen_v : p # q => gen_v[p] # gen_v[q]
           /\ pc = "returned"
                => /\ Len(gen_v) = key_size
                   /\ \A x \in 0..(key_size - 1) :
                        Cardinality({p \in DOMAIN gen_v : gen_v[p] = x}) = 1

C3_Witness ==
    /\ pc = "returned"
    /\ key_size = 5
    /\ gen_v = <<3, 1, 4, 0, 2>>

(* C4: shift encrypt equals the direct modular formula on every byte, for  *)
(* every key in 0..255; key 15 maps "hello" to "wtaad".                    *)
C4_ShiftEncryptIsModular ==
    (cipher.tag = "ShiftCipher" /\ Returned(<<"encrypt">>))
        => /\ Len(org) = Len(input)
           /\ \A p \in DOMAIN input :
                org[p] = ShiftReference(cipher.key, input[p])
           /\ (cipher.key = 15 /\ input = Hello) => org = Wtaad

C4_Witness ==
    /\ Returned(<<"encrypt">>)
    /\ cipher = ShiftCipher(15)
    /\ input = Hello
    /\ org = Wtaad

C6_EveryCompleteBlockPermuted ==
    (cipher.tag = "TransCipher" /\ KeyLen >= 1 /\ IsPermutation(cipher.key)
        /\ Returned(<<"encrypt">>))
        => /\ \A q \in 0..Len(input) :
                KeyLen * q + KeyLen <= Len(input)
                    => \A k \in 0..(KeyLen - 1) :
                        At(org, KeyLen * q + k)
                            = At(input, KeyLen * q + At(cipher.key, k))
           /\ (cipher.key = DocKey /\ input = Word) => org = Odwr

(* the documented example alone *)
C6_DocExample ==
    (Returned(<<"encrypt">>) /\ cipher = TransCipher(DocKey) /\ input = Word)
        => org = Odwr

(* C7: trans_key_gen(0) fails fast: it never returns a key.                *)
C7_ZeroKeySizeFails ==
    key_size = 0 => pc # "returned"

(* C8: an arbitrary key (duplicates, entries >= the key length) never      *)
(* faults: no index is out of bounds in encrypt or decrypt.                *)
C8_NoFault ==
    pc # "panic"

(* C9: transposition encrypt and decrypt are total for every permutation   *)
(* key, the empty key included: a call that entered the blocking loop      *)
(* eventually returns.                                                     *)
C9_Terminates ==
    (pc \in {"enc_while", "dec_while"}) ~> (pc = "returned")

(* C9, its parenthesis: the block offset strictly increases on every       *)
(* iteration of the blocking loop.                                         *)
C9_OffsetIncreases ==
    [][(pc \in {"enc_accord", "dec_accord"}
            /\ pc' \in {"enc_while", "dec_while"}) => i' > i]_vars

(* C10: per-block encrypt applies the permutation in place: the positions  *)
(* written so far hold v_original[acc[k]], all n of them when the loop     *)
(* ends; the scratch map holds acc[k] exactly when acc[k] <= k and then    *)
(* gives the original value; otherwise v[acc[k]] is still the original.    *)
C10_AccordAppliesPermutation ==
    (IsPermutation(cipher.key) /\ pc = "enc_accord")
        => /\ \A k \in 0..(j - 1) :
                At(org, i + k) = At(input, i + At(cipher.key, k))
           /\ j < KeyLen
                => LET a == At(cipher.key, j)
                       num1 == insert(num, j, At(org, i + j))
                   IN  /\ contains_key(num1, a) <=> a <= j
                       /\ a <= j => num1[a] = At(input, i + a)
                       /\ a > j => At(org, i + a) = At(input, i + a)

C10_Witness ==
    /\ pc = "enc_accord"
    /\ j = 3
    /\ i = 0
    /\ cipher = TransCipher(<<1, 2, 0>>)
    /\ input = Iota(6)
    /\ org = <<50, 51, 49, 52, 53, 54>>

============================================================================
